---- MODULE Spec2Model ----
(***************************************************************************)
(* Model of rl_framework/monitor/loglib/influxdb_handler.py: the telemetry *)
(* pipeline  producer -> InfluxdbMonitorHandler.emit -> QueueHandler       *)
(* (filter, prepare, put_nowait) -> Queue -> QueueListener thread ->       *)
(* InfluxdbMonitorHandlerInner.emit (format, write_points, reconnect).     *)
(*                                                                         *)
(* Python values are modelled by tokens:                                   *)
(*   "i:0" "i:7"        the ints 0 and 7                                   *)
(*   "s:" "s:a" ...      the strings '' and 'a' ...                         *)
(*   "none"             None                                               *)
(*   "obj"              an object with the default repr <... object at ...>*)
(*   "evil"             an object whose __repr__ raises                    *)
(* A dict is a function from a finite set of keys to value tokens.  The    *)
(* text of a dict (str(dict)) is a function from the same keys to the repr *)
(* texts of the values; ast.literal_eval parses such texts back.           *)
(***************************************************************************)
EXTENDS Integers, Sequences, FiniteSets, TLC

\* ------------------------------------------------------------------ bounds

\* capacity of the relay queue: loglib.conf "queue_size" read by Queue(...)
queue_size == 2

\* number of producer calls of emit explored
MaxSubmits == 3

\* range(2) of InfluxdbMonitorHandlerInner.emit
MaxAttempts == 2

\* ------------------------------------------------------------ python values

EmptyMap == [k \in {} |-> ""]

\* bool(v): truthiness of a value
Truthy(v) == v \notin {"i:0", "s:", "none"}

\* repr(v) raises for this value
ReprRaises(v) == v = "evil"

\* repr(v): the text of a value inside a dict display
Repr(v) ==
    CASE v = "i:0" -> "0"
      [] v = "i:7" -> "7"
      [] v = "s:" -> "''"
      [] v = "s:a" -> "'a'"
      [] v = "s:7" -> "'7'"
      [] v = "s:0" -> "'0'"
      [] v = "none" -> "None"
      [] OTHER -> "<object at 0x1>"

\* str(v): the string form of a value
Str(v) ==
    CASE v = "i:0" -> "s:0"
      [] v = "i:7" -> "s:7"
      [] v = "none" -> "s:None"
      [] v = "obj" -> "s:<object at 0x1>"
      [] OTHER -> v

\* the texts ast.literal_eval accepts as a literal
IsLiteral(t) == t \in {"0", "7", "''", "'a'", "'7'", "'0'", "None"}

\* ast.literal_eval of the text of one value
EvalTok(t) ==
    CASE t = "0" -> "i:0"
      [] t = "7" -> "i:7"
      [] t = "''" -> "s:"
      [] t = "'a'" -> "s:a"
      [] t = "'7'" -> "s:7"
      [] t = "'0'" -> "s:0"
      [] OTHER -> "none"

\* ------------------------------------------------------------ log messages

\* record.msg: a dict, a str or an int.  A str is either plain text (s) or
\* the text of a dict display with items d (s = "{..}").
DictMsg(d) == [kind |-> "dict", d |-> d, s |-> ""]
StrMsg(s) == [kind |-> "str", d |-> EmptyMap, s |-> s]
ReprMsg(t) == [kind |-> "str", d |-> t, s |-> "{..}"]
IntMsg(s) == [kind |-> "int", d |-> EmptyMap, s |-> s]

\* the dict payloads a producer logs
Dicts ==
    { EmptyMap,
      "x" :> "i:7",
      "role" :> "s:a" @@ "actor_id" :> "i:7" @@ "x" :> "i:7",
      "role" :> "s:" @@ "x" :> "i:7",
      "role" :> "s:a",
      "actor_id" :> "i:0" @@ "x" :> "i:7",
      "actor_id" :> "none" @@ "x" :> "i:0",
      "ip_port" :> "s:a",
      "x" :> "obj",
      "x" :> "evil" }

\* everything a producer may pass to the logger
Messages ==
    {DictMsg(d) : d \in Dicts} \cup {StrMsg("hello world"), IntMsg("5")}

\* ------------------------------------------------- str and literal_eval

\* LogRecord.getMessage(): str(record.msg); exc when a repr raises
getMessage(msg) ==
    IF msg.kind = "dict"
    THEN IF \E k \in DOMAIN msg.d : ReprRaises(msg.d[k])
         THEN [exc |-> TRUE, val |-> msg]
         ELSE [exc |-> FALSE,
               val |-> ReprMsg([k \in DOMAIN msg.d |-> Repr(msg.d[k])])]
    ELSE [exc |-> FALSE, val |-> [msg EXCEPT !.kind = "str"]]

\* ast.literal_eval of a str: the dict it displays, an int, or an exception
literal_eval(text) ==
    IF text.s = "{..}"
    THEN IF \A k \in DOMAIN text.d : IsLiteral(text.d[k])
         THEN [exc |-> FALSE,
               val |-> DictMsg([k \in DOMAIN text.d |-> EvalTok(text.d[k])])]
         ELSE [exc |-> TRUE, val |-> text]
    ELSE IF text.s = "5"
         THEN [exc |-> FALSE, val |-> IntMsg("5")]
         ELSE [exc |-> TRUE, val |-> text]

\* _to_builtin: numbers, strings and None unchanged, dict values converted,
\* any other object stringified (which raises when its repr raises)
_to_builtin(msg) ==
    IF msg.kind = "dict"
    THEN IF \E k \in DOMAIN msg.d : ReprRaises(msg.d[k])
         THEN [exc |-> TRUE, val |-> msg]
         ELSE [exc |-> FALSE,
               val |-> DictMsg([k \in DOMAIN msg.d |->
                          IF msg.d[k] = "obj" THEN Str(msg.d[k]) ELSE msg.d[k]])]
    ELSE [exc |-> FALSE, val |-> msg]

\* ------------------------------------------------------------------ filter

\* a filter that passes every record
filter_all(record) == TRUE

\* InfluxdbMonitorFilter.filter: isinstance(record.msg, dict), then the base
\* Filter with an empty name, which passes every record
InfluxdbMonitorFilter_filter(record) == record.msg.kind = "dict"

\* -------------------------------------------------------------- formatters

\* the host probe of InfluxdbMonitorFormatter.__init__ on a host without GPU
Hostname == "s:host-1"
StaticTags == "ip_port" :> Hostname @@ "type" :> "s:cpu"

GeneralMeasurement == "cpu_ip_info"
ActorMeasurement == "actor_metrics"

\* dict.pop(key, None)
Pop(d, key) == IF key \in DOMAIN d THEN d[key] ELSE "none"
Without(d, keys) == [k \in DOMAIN d \ keys |-> d[k]]

\* a formatter result: exc, the formatter's tags afterwards, and the point
\* (the very _json_body object) it returns
FormatRaise(tags) ==
    [exc |-> TRUE, tags |-> tags, measurement |-> "", fields |-> IntMsg("")]

\* InfluxdbMonitorFormatter.format
InfluxdbMonitorFormatter_format(tags, record) ==
    LET parsed == IF record.msg.kind = "dict"
                  THEN [exc |-> FALSE, val |-> record.msg]
                  ELSE literal_eval(getMessage(record.msg).val)
        built == _to_builtin(parsed.val)
    IN  IF parsed.exc \/ built.exc
        THEN FormatRaise(tags)
        ELSE [exc |-> FALSE, tags |-> tags,
              measurement |-> GeneralMeasurement, fields |-> built.val]

\* if actor_id: ...
PromotesActorId_truthy(actor_id) == Truthy(actor_id)

\* if actor_id is not None: ...
PromotesActorId(actor_id) == actor_id # "none"

\* ActorMetricsFormatter.format
ActorMetricsFormatter_format(tags, record) ==
    LET text == getMessage(record.msg)
        parsed == literal_eval(text.val)
    IN  IF text.exc \/ parsed.exc \/ parsed.val.kind # "dict"
        THEN FormatRaise(tags)
        ELSE LET msg_dict == parsed.val.d
                 role == Pop(msg_dict, "role")
                 actor_id == Pop(msg_dict, "actor_id")
                 t1 == IF Truthy(role) THEN ("role" :> role) @@ tags ELSE tags
                 t2 == IF PromotesActorId(actor_id)
                       THEN ("actor_id" :> Str(actor_id)) @@ t1 ELSE t1
             IN  [exc |-> FALSE, tags |-> t2,
                  measurement |-> ActorMeasurement,
                  fields |-> DictMsg(Without(msg_dict, {"role", "actor_id"}))]

\* Handler.format with the formatter installed by setFormatter
Format(variant, tags, record) ==
    IF variant = "actor"
    THEN ActorMetricsFormatter_format(tags, record)
    ELSE InfluxdbMonitorFormatter_format(tags, record)

\* ------------------------------------------------------------------- state

VARIABLES
    queue,       \* self._queue: the prepared records waiting, oldest first
    nextId,      \* number of producer calls of emit so far
    lastSubmit,  \* what the latest producer call of emit did
    pc,          \* the QueueListener thread: "idle", "emit", "ret" or "dead"
    cur,         \* the record the listener thread is handling
    attempt,     \* the loop index of InfluxdbMonitorHandlerInner.emit
    writes,      \* write_points calls made for cur
    reconnects,  \* clients created while handling cur
    lastErr,     \* the exception caught last while handling cur
    written,     \* the point passed to the latest write_points call for cur
    tags,        \* formatter._json_body["tags"]
    client,      \* self._client: the number of the client in use
    closed,      \* the clients that were closed
    lastDone,    \* how the latest finished call of the inner emit ended
    variant,     \* the formatter installed: "general" or "actor"
    sinkDead,    \* the sink fails every write
    stopped,     \* Handler.close() of the InfluxdbMonitorHandler has returned
    norm_in,     \* the argument of a call of _to_builtin
    norm_out     \* what that call returned

vars ==
    << queue, nextId, lastSubmit, pc, cur, attempt, writes, reconnects,
       lastErr, written, tags, client, closed, lastDone, variant, sinkDead,
       stopped, norm_in, norm_out >>

\* what no step of the pipeline touches
other == << stopped, norm_in, norm_out >>

NoRec == [id |-> 0, msg |-> IntMsg(""), orig |-> IntMsg("")]
NoPoint == [measurement |-> "", tags |-> EmptyMap, fields |-> IntMsg("")]
NoSubmit ==
    [id |-> 0, isdict |-> FALSE, result |-> "none", exc |-> "",
     blocked |-> FALSE]
NoValue == [t |-> "none", lit |-> "None", items |-> EmptyMap]
Unset == [t |-> "unset", lit |-> "", items |-> EmptyMap]
NoDone ==
    [id |-> 0, outcome |-> "none", writes |-> 0, err |-> "", ret |-> "None",
     raised |-> FALSE]

\* ---------------------------------------------------------- producer side

\* Queue() built without the configured size
Full_unbounded(q) == FALSE

\* Queue.full(): maxsize <= 0 means unbounded
Full(q) == queue_size > 0 /\ Len(q) >= queue_size

\* Queue.put: waits for a free slot
put_blocking(q, item) ==
    IF Len(q) >= queue_size
    THEN [q |-> q, exc |-> "", blocked |-> TRUE]
    ELSE [q |-> Append(q, item), exc |-> "", blocked |-> FALSE]

\* Queue.put_nowait: raises queue.Full instead of waiting
put_nowait(q, item) ==
    IF Full(q)
    THEN [q |-> q, exc |-> "Full", blocked |-> FALSE]
    ELSE [q |-> Append(q, item), exc |-> "", blocked |-> FALSE]

\* QueueHandler.prepare: the record's msg replaced by its formatted text
QueueHandler_prepare(record) ==
    LET text == getMessage(record.msg)
    IN  [exc |-> text.exc,
         record |-> [id |-> record.id, msg |-> text.val, orig |-> record.msg]]

\* enqueue(prepare(record)) outside any try
QueueHandler_emit_unguarded(q, record) ==
    LET p == QueueHandler_prepare(record)
        e == put_nowait(q, p.record)
    IN  IF p.exc
        THEN [q |-> q, exc |-> "ReprError", blocked |-> FALSE,
              result |-> "error"]
        ELSE [q |-> e.q, exc |-> e.exc, blocked |-> e.blocked,
              result |-> IF e.exc # "" THEN "full" ELSE "enqueued"]

\* QueueHandler.emit: enqueue(prepare(record)); any Exception goes to
\* handleError, which prints and returns
QueueHandler_emit(q, record) ==
    LET p == QueueHandler_prepare(record)
        e == put_nowait(q, p.record)
    IN  IF p.exc
        THEN [q |-> q, exc |-> "", blocked |-> FALSE, result |-> "error"]
        ELSE IF e.exc # ""
        THEN [q |-> q, exc |-> "", blocked |-> FALSE, result |-> "full"]
        ELSE [q |-> e.q, exc |-> "", blocked |-> e.blocked,
              result |-> IF e.blocked THEN "blocked" ELSE "enqueued"]

\* Handler.handle of the queue handler: the filter added in __init__ decides
\* whether emit runs
QueueHandler_handle(q, record) ==
    IF InfluxdbMonitorFilter_filter(record)
    THEN QueueHandler_emit(q, record)
    ELSE [q |-> q, exc |-> "", blocked |-> FALSE, result |-> "rejected"]

\* InfluxdbMonitorHandler.emit
InfluxdbMonitorHandler_emit(q, record) == QueueHandler_handle(q, record)

\* emit handing the record to self._handler on the caller's thread: one
\* iteration of the inner emit runs inside the producer's call
Submit_direct(m) ==
    /\ nextId < MaxSubmits
    /\ LET record == [id |-> nextId + 1, msg |-> m, orig |-> m]
           f == Format(variant, tags, record)
       IN  /\ tags' = f.tags
           /\ written' = IF f.exc \/ f.fields.kind # "dict" THEN written
                          ELSE [measurement |-> f.measurement,
                                tags |-> f.tags, fields |-> f.fields]
           /\ writes' = IF f.exc \/ f.fields.kind # "dict" THEN writes
                         ELSE writes + 1
    /\ lastSubmit' = [id |-> nextId + 1, isdict |-> m.kind = "dict",
                      result |-> "handled", exc |-> "", blocked |-> FALSE]
    /\ nextId' = nextId + 1
    /\ UNCHANGED << queue, pc, cur, attempt, reconnects, lastErr, client,
                    closed, lastDone, variant, sinkDead >>
    /\ UNCHANGED other

\* a producer thread logs message m
Submit(m) ==
    /\ nextId < MaxSubmits
    /\ LET record == [id |-> nextId + 1, msg |-> m]
           r == InfluxdbMonitorHandler_emit(queue, record)
       IN  /\ queue' = r.q
           /\ lastSubmit' = [id |-> nextId + 1, isdict |-> m.kind = "dict",
                             result |-> r.result, exc |-> r.exc,
                             blocked |-> r.blocked]
    /\ nextId' = nextId + 1
    /\ UNCHANGED << pc, cur, attempt, writes, reconnects, lastErr, written,
                    tags, client, closed, lastDone, variant, sinkDead >>
    /\ UNCHANGED other

\* ---------------------------------------------------------- consumer side

\* the endpoint given to InfluxdbMonitorHandlerInner.__init__
Endpoint == [host |-> "localhost", port |-> "8086", database |-> "monitordb"]

\* _create_influxdb_client: the n-th client, built from self._ip, self._port
\* and self._database
_create_influxdb_client(n) ==
    [n |-> n, host |-> Endpoint.host, port |-> Endpoint.port,
     database |-> Endpoint.database]

\* the except clause without the second statement: the closed client stays
ExceptHandler_keeps_client(c, cl) == [client |-> c, closed |-> cl \cup {c}]

\* the except clause of the inner emit: close the client, create a new one
ExceptHandler(c, cl) ==
    [client |-> _create_influxdb_client(c.n + 1), closed |-> cl \cup {c}]

\* range(3)
LoopContinues_three(i) == i + 1 < 3

\* for _ in range(2): whether another iteration follows iteration i
LoopContinues(i) == i + 1 < MaxAttempts

\* the caught exception raised again once the loop is over
EmitResult_reraise(err) == [ret |-> "None", raised |-> err # ""]

\* what the inner emit hands back to QueueListener.handle when its loop is
\* over: the caught exception is printed, nothing is returned or raised
EmitResult(err) == [ret |-> "None", raised |-> FALSE]

\* the record put back on the queue
AfterEmit_requeue(q, record) == Append(q, record)

\* where a record goes when the inner emit is done with it: nowhere
AfterEmit(q, record) == q

\* a LifoQueue: the newest record is taken first
Dequeue_lifo ==
    /\ pc = "idle"
    /\ queue # << >>
    /\ cur' = queue[Len(queue)]
    /\ queue' = SubSeq(queue, 1, Len(queue) - 1)
    /\ pc' = "emit"
    /\ attempt' = 0
    /\ writes' = 0
    /\ reconnects' = 0
    /\ lastErr' = ""
    /\ UNCHANGED << nextId, lastSubmit, written, tags, client, closed,
                    lastDone, variant, sinkDead >>
    /\ UNCHANGED other

\* a failure count kept on the handler instead of a loop index per call
Dequeue_keeps_count ==
    /\ pc = "idle"
    /\ queue # << >>
    /\ cur' = Head(queue)
    /\ queue' = Tail(queue)
    /\ pc' = "emit"
    /\ writes' = 0
    /\ reconnects' = 0
    /\ lastErr' = ""
    /\ UNCHANGED << nextId, lastSubmit, written, tags, client, closed,
                    lastDone, variant, sinkDead, attempt >>
    /\ UNCHANGED other

\* QueueListener._monitor: record = self.dequeue(True)
Dequeue ==
    /\ pc = "idle"
    /\ queue # << >>
    /\ cur' = Head(queue)
    /\ queue' = Tail(queue)
    /\ pc' = "emit"
    /\ attempt' = 0
    /\ writes' = 0
    /\ reconnects' = 0
    /\ lastErr' = ""
    /\ UNCHANGED << nextId, lastSubmit, written, tags, client, closed,
                    lastDone, variant, sinkDead >>
    /\ UNCHANGED other

\* the except path of one loop iteration
Failed(err) ==
    LET h == ExceptHandler(client, closed)
    IN  /\ lastErr' = err
        /\ client' = h.client
        /\ closed' = h.closed
        /\ reconnects' = reconnects + 1
        /\ attempt' = attempt + 1
        /\ pc' = IF LoopContinues(attempt) THEN "emit" ELSE "ret"

\* one iteration whose self.format(record), or the read of the fields' keys,
\* raises
AttemptFormatFails ==
    /\ pc = "emit"
    /\ LET f == Format(variant, tags, cur)
       IN  /\ f.exc \/ f.fields.kind # "dict"
           /\ tags' = f.tags
    /\ Failed("format")
    /\ UNCHANGED << queue, nextId, lastSubmit, cur, writes, written, lastDone,
                    variant, sinkDead >>
    /\ UNCHANGED other

\* one iteration whose write_points succeeds: break
AttemptWriteOk ==
    /\ pc = "emit"
    /\ ~sinkDead
    /\ LET f == Format(variant, tags, cur)
       IN  /\ ~f.exc /\ f.fields.kind = "dict"
           /\ tags' = f.tags
           /\ written' = [measurement |-> f.measurement, tags |-> f.tags,
                          fields |-> f.fields]
    /\ writes' = writes + 1
    /\ lastErr' = ""
    /\ pc' = "ret"
    /\ UNCHANGED << queue, nextId, lastSubmit, cur, attempt, reconnects,
                    client, closed, lastDone, variant, sinkDead >>
    /\ UNCHANGED other

\* one iteration whose write_points raises
AttemptWriteFails ==
    /\ pc = "emit"
    /\ LET f == Format(variant, tags, cur)
       IN  /\ ~f.exc /\ f.fields.kind = "dict"
           /\ tags' = f.tags
           /\ written' = [measurement |-> f.measurement, tags |-> f.tags,
                          fields |-> f.fields]
    /\ writes' = writes + 1
    /\ Failed("write")
    /\ UNCHANGED << queue, nextId, lastSubmit, cur, lastDone, variant,
                    sinkDead >>
    /\ UNCHANGED other

\* the inner emit returns to QueueListener._monitor, which goes back to
\* dequeue; an exception leaving emit would end the thread
Return ==
    /\ pc = "ret"
    /\ LET r == EmitResult(lastErr)
       IN  /\ lastDone' = [id |-> cur.id,
                           outcome |-> IF lastErr = ""
                                       THEN "delivered" ELSE "dropped",
                           writes |-> writes, err |-> lastErr,
                           ret |-> r.ret, raised |-> r.raised]
           /\ pc' = IF r.raised THEN "dead" ELSE "idle"
    /\ queue' = AfterEmit(queue, cur)
    /\ cur' = NoRec
    /\ written' = NoPoint
    /\ UNCHANGED << nextId, lastSubmit, attempt, writes, reconnects, lastErr,
                    tags, client, closed, variant, sinkDead >>
    /\ UNCHANGED other

\* ---------------------------------------------------------------- shutdown

\* Handler.close(), inherited unchanged by InfluxdbMonitorHandler and called
\* by logging.shutdown() when the program ends after its last log call: it
\* takes the handler off logging's handler list.  It puts no sentinel on the
\* queue, joins no thread and closes no client.
Close ==
    /\ nextId = MaxSubmits
    /\ ~stopped
    /\ stopped' = TRUE
    /\ UNCHANGED << queue, nextId, lastSubmit, pc, cur, attempt, writes,
                    reconnects, lastErr, written, tags, client, closed,
                    lastDone, variant, sinkDead, norm_in, norm_out >>

\* ------------------------------------------------------------ specification

PipelineInit ==
    /\ queue = << >>
    /\ nextId = 0
    /\ lastSubmit = NoSubmit
    /\ pc = "idle"
    /\ cur = NoRec
    /\ attempt = 0
    /\ writes = 0
    /\ reconnects = 0
    /\ lastErr = ""
    /\ written = NoPoint
    /\ tags = StaticTags
    /\ client = _create_influxdb_client(0)
    /\ closed = {}
    /\ lastDone = NoDone
    /\ variant \in {"general", "actor"}
    /\ sinkDead \in BOOLEAN
    /\ stopped = FALSE

Init ==
    /\ PipelineInit
    /\ norm_in = NoValue
    /\ norm_out = Unset

Next ==
    \/ \E m \in Messages : Submit(m)
    \/ Dequeue
    \/ AttemptFormatFails
    \/ AttemptWriteOk
    \/ AttemptWriteFails
    \/ Return
    \/ Close

Spec == Init /\ [][Next]_vars

\* the steps of the QueueListener thread
Listener ==
    \/ Dequeue
    \/ AttemptFormatFails
    \/ AttemptWriteOk
    \/ AttemptWriteFails
    \/ Return

\* the messages that differ in how the pipeline treats them: written,
\* failing to format, dropped by prepare, rejected by the filter
LiveMessages ==
    { DictMsg("x" :> "i:7"), DictMsg("x" :> "obj"), DictMsg("x" :> "evil"),
      StrMsg("hello world") }

LiveNext ==
    \/ \E m \in LiveMessages : Submit(m)
    \/ Listener
    \/ Close

\* the listener thread is a started daemon thread that only waits in
\* dequeue: whenever it can take a step it eventually takes one
LiveSpec == Init /\ [][LiveNext]_vars /\ WF_vars(Listener)

\* ------------------------------------------------------------- _to_builtin

\* longest list or tuple given to _to_builtin
MaxLen == 2

\* A Python value as a tree: t is its type, lit the literal of a scalar,
\* items the items of a container by key; the keys of a list, tuple or
\* ndarray are its indices "0", "1", ...
Scalar(t, lit) == [t |-> t, lit |-> lit, items |-> EmptyMap]
Container(t, items) == [t |-> t, lit |-> "", items |-> items]

Index == << "0", "1", "2", "3" >>
Indices(n) == { Index[i] : i \in 1..n }

\* None, bool, int, float, str
Primitives ==
    { NoValue, Scalar("bool", "True"), Scalar("bool", "False"),
      Scalar("int", "0"), Scalar("int", "7"), Scalar("float", "1.5"),
      Scalar("str", ""), Scalar("str", "a") }

\* numpy scalars, an ndarray, bytes and an arbitrary object
NonPrimitives ==
    { Scalar("np.int64", "7"), Scalar("np.float64", "1.5"),
      Scalar("bytes", "a"), Scalar("object", "<object at 0x1>"),
      Container("ndarray", "0" :> Scalar("np.int64", "7")
                             @@ "1" :> Scalar("np.int64", "0")) }

Leaves == Primitives \cup NonPrimitives

SeqsOf(S) == UNION { [Indices(n) -> S] : n \in 0..MaxLen }
MapsOf(S) == UNION { [K -> S] : K \in SUBSET {"a", "b"} }

\* lists, tuples and dicts of leaves, and some nested containers
NormInputs ==
    Leaves
    \cup { Container(t, items) :
              t \in {"list", "tuple"}, items \in SeqsOf(Leaves) }
    \cup { Container("dict", items) : items \in MapsOf(Leaves) }
    \cup { Container("list",
              "0" :> Container("tuple", "0" :> Scalar("int", "7"))),
           Container("dict",
              "a" :> Container("list", "0" :> Scalar("np.int64", "7"))),
           Container("dict",
              "a" :> Container("dict", "b" :> Scalar("str", "a"))),
           Container("tuple",
              "0" :> Container("dict", "a" :> NoValue)
                 @@ "1" :> Scalar("object", "<object at 0x1>")) }

\* list(...) whatever the type of the sequence
Rebuild_list(t, items) == Container("list", items)

\* type(obj)(...): a sequence of the same type with the new items
Rebuild(t, items) == Container(t, items)

\* obj.item() of a numpy scalar, and the items of ndarray.tolist()
Item(obj) == Scalar(IF obj.t = "np.int64" THEN "int" ELSE "float", obj.lit)

\* str(obj)
StrOf(obj) ==
    Scalar("str", IF obj.t = "bytes" THEN "b'a'" ELSE "<object at 0x1>")

RECURSIVE ToBuiltin(_)
\* _to_builtin(obj), its tests in the order of the source
ToBuiltin(obj) ==
    IF obj.t \in {"np.int64", "np.float64"}
    THEN Item(obj)
    ELSE IF obj.t \in {"int", "float", "bool", "str", "none"}
    THEN obj
    ELSE IF obj.t = "dict"
    THEN Container("dict", [k \in DOMAIN obj.items |-> ToBuiltin(obj.items[k])])
    ELSE IF obj.t \in {"list", "tuple"}
    THEN Rebuild(obj.t, [k \in DOMAIN obj.items |-> ToBuiltin(obj.items[k])])
    ELSE IF obj.t = "ndarray"
    THEN Container("list", [k \in DOMAIN obj.items |-> Item(obj.items[k])])
    ELSE StrOf(obj)

\* a call of _to_builtin on norm_in
Normalize ==
    /\ norm_out = Unset
    /\ norm_out' = ToBuiltin(norm_in)
    /\ UNCHANGED << queue, nextId, lastSubmit, pc, cur, attempt, writes,
                    reconnects, lastErr, written, tags, client, closed,
                    lastDone, variant, sinkDead, stopped, norm_in >>

\* a call of _to_builtin on what the call before returned
NormalizeAgain ==
    /\ norm_out # Unset
    /\ norm_in' = norm_out
    /\ norm_out' = ToBuiltin(norm_out)
    /\ UNCHANGED << queue, nextId, lastSubmit, pc, cur, attempt, writes,
                    reconnects, lastErr, written, tags, client, closed,
                    lastDone, variant, sinkDead, stopped >>

NormInit ==
    /\ PipelineInit
    /\ norm_in \in NormInputs
    /\ norm_out = Unset

NormNext == Normalize \/ NormalizeAgain

NormSpec == NormInit /\ [][NormNext]_vars

\* ------------------------------------------------------------------ claims

InQueue(i) == \E j \in 1..Len(queue) : queue[j].id = i

\* C1: while one point is handled, write_points is called at most 2 times,
\* also when every write fails, and after the second call the loop is over.
C1_RetryBound == writes <= 2 /\ (writes = 2 => pc # "emit")

C1_Witness == sinkDead /\ writes = 2 /\ lastErr = "write" /\ pc = "ret"

\* C2: the relay queue never holds more than queue_size records.
C2_QueueBounded == Len(queue) <= queue_size

C2_Witness == Len(queue) = queue_size /\ lastSubmit.result = "full"

\* C3: a producer call with a dict while the queue is full ends at once, the
\* record is dropped, and the queue and the listener thread are untouched.
C3_DropOnFull ==
    [][ (nextId' = nextId + 1 /\ Len(queue) = queue_size
            /\ lastSubmit'.isdict)
        => /\ queue' = queue
           /\ lastSubmit'.result \in {"full", "error"}
           /\ ~lastSubmit'.blocked
           /\ UNCHANGED << pc, cur, attempt >> ]_vars

C3_Witness ==
    /\ lastSubmit.isdict /\ lastSubmit.result = "full"
    /\ Len(queue) = queue_size /\ ~lastSubmit.blocked

\* C4: no producer call of emit ends with an exception, whether the record
\* is rejected, the queue is full, its text cannot be built, or the sink
\* fails every write.
C4_SubmitNeverRaises == lastSubmit.exc = ""

C4_Witness ==
    /\ lastSubmit.result = "full" /\ sinkDead /\ lastErr = "write"
    /\ lastDone.outcome = "dropped"

\* C5: the filter passes a record exactly when its msg is a dict, and only
\* records that were dicts are in the queue or in the listener's hands.
C5_OnlyDictsPass ==
    /\ \A j \in 1..Len(queue) : queue[j].orig.kind = "dict"
    /\ pc \in {"emit", "ret"} => cur.orig.kind = "dict"
    /\ lastSubmit.id > 0 =>
          ((lastSubmit.result = "rejected") <=> ~lastSubmit.isdict)

C5_Witness ==
    /\ lastSubmit.result = "rejected" /\ queue # << >> /\ pc = "emit"

C7_DeadSinkDrains ==
    /\ [](pc # "dead")
    /\ \A i \in 1..MaxSubmits :
          (sinkDead /\ InQueue(i))
              ~> (lastDone.id = i /\ lastDone.outcome = "dropped")

C7_Witness ==
    /\ sinkDead /\ lastDone.id = 2 /\ lastDone.outcome = "dropped"
    /\ lastDone.writes = 2 /\ pc = "emit" /\ cur.id = 3

\* C8 as stated: every point passed to write_points has at least one field.
C8_FieldsNonEmpty ==
    written # NoPoint => DOMAIN written.fields.d # {}

\* C9 as stated: the tag keys and the field keys of every point passed to
\* write_points are disjoint.
C9_TagsFieldsDisjoint ==
    written # NoPoint
        => DOMAIN written.tags \cap DOMAIN written.fields.d = {}

\* the values whose text ast.literal_eval reads back
Literal(d) == \A k \in DOMAIN d : d[k] \notin {"obj", "evil"}

\* an iteration of the inner emit has run for cur
Tried == pc \in {"emit", "ret"} /\ (attempt > 0 \/ writes > 0)

ActorPoint(r, p, roleCase) ==
    /\ p.measurement = "actor_metrics"
    /\ roleCase => ("role" \in DOMAIN p.tags /\ p.tags["role"] = r["role"])
    /\ ("actor_id" \in DOMAIN r /\ r["actor_id"] # "none")
          => /\ "actor_id" \in DOMAIN p.tags
             /\ p.tags["actor_id"] = Str(r["actor_id"])
    /\ DOMAIN p.fields.d \cap {"role", "actor_id"} = {}
    /\ \A k \in DOMAIN r \ {"role", "actor_id"} :
          k \in DOMAIN p.fields.d /\ p.fields.d[k] = r[k]

C11_StopDrainsAndCloses ==
    stopped => /\ queue = << >>
               /\ pc \notin {"idle", "emit", "ret"}
               /\ client \in closed

RECURSIVE PrimitiveOnly(_)
\* built only from None, bool, int, float, str, lists and tuples of such,
\* and dicts of such
PrimitiveOnly(x) ==
    IF x.t \in {"none", "bool", "int", "float", "str"} THEN TRUE
    ELSE IF x.t \in {"list", "tuple", "dict"}
    THEN \A k \in DOMAIN x.items : PrimitiveOnly(x.items[k])
    ELSE FALSE

\* C12: _to_builtin returns a primitive-only argument unchanged; so a
\* second call on its own result returns that result.
C12_NormalizeFixesPrimitives ==
    (norm_out # Unset /\ PrimitiveOnly(norm_in)) => norm_out = norm_in

C12_Witness ==
    /\ norm_out # Unset /\ norm_in.t = "tuple"
    /\ DOMAIN norm_in.items = {"0", "1"}
    /\ PrimitiveOnly(norm_in) /\ norm_in.items["0"].t = "str"

\* C13: no write uses a closed client, and a step in which a write fails
\* closes the client it used and puts in its place a new client, not closed,
\* for the same host, port and database.
C13_ReconnectOnWriteFailure ==
    /\ [](client \notin closed)
    /\ [][ (pc = "emit" /\ writes' = writes + 1 /\ attempt' = attempt + 1)
           => /\ client \in closed'
              /\ client' # client
              /\ client' \notin closed'
              /\ client'.host = client.host
              /\ client'.port = client.port
              /\ client'.database = client.database ]_vars

C13_Witness ==
    /\ pc = "emit" /\ lastErr = "write" /\ writes = 1 /\ attempt = 1
    /\ closed # {} /\ client \notin closed

\* C14 as stated: while one point is handled the client is closed and
\* recreated at most once.
C14_AtMostOneReconnect == reconnects <= 1

\* C14 amended: while one point is handled the client is closed and
\* recreated once after each failed iteration: at most once before the
\* retry, and a second time when the retry fails too.
C14_ReconnectPerFailure ==
    /\ reconnects = attempt
    /\ reconnects <= 2
    /\ pc = "emit" => reconnects <= 1

C14_Witness ==
    pc = "ret" /\ reconnects = 2 /\ writes = 2 /\ lastErr = "write"

\* C15: records are written in the order in which they were enqueued: the
\* queue holds them in that order, and every queued record was enqueued
\* after the one in the listener's hands and after the one finished last.
C15_FifoWrites ==
    /\ \A j, k \in 1..Len(queue) : j < k => queue[j].id < queue[k].id
    /\ \A j \in 1..Len(queue) : lastDone.id < queue[j].id
    /\ pc \in {"emit", "ret"}
          => /\ lastDone.id < cur.id
             /\ \A j \in 1..Len(queue) : cur.id < queue[j].id

C15_Witness ==
    /\ pc = "emit" /\ writes = 1 /\ lastDone.id = 1 /\ cur.id = 2
    /\ queue # << >>

\* C16: a producer's call changes nothing of the formatter, the client or
\* the listener thread; points are formatted and written only in steps of
\* the one listener thread, one write_points call per step.
C16_SingleWriter ==
    [][ /\ nextId' # nextId
           => UNCHANGED << tags, written, writes, client, closed, pc, cur,
                           attempt, reconnects >>
        /\ (tags' # tags \/ written' # written \/ client' # client
               \/ writes' # writes)
           => /\ pc \in {"idle", "emit", "ret"} /\ pc' \in {"idle", "emit", "ret"}
              /\ pc # pc' \/ pc = "emit"
              /\ writes' \in {0, writes, writes + 1} ]_vars

C16_Witness ==
    /\ pc = "emit" /\ writes = 1 /\ cur.id = 1
    /\ Len(queue) = queue_size /\ lastSubmit.id = nextId

\* C17: a record whose formatting fails is finished as dropped without any
\* write_points call; no producer call raised, the listener thread lives on
\* and takes the next queued record.
C17_FormatFailureDrops ==
    /\ (pc \in {"emit", "ret"} /\ lastErr = "format") => writes = 0
    /\ lastDone.err = "format"
          => /\ lastDone.writes = 0
             /\ lastDone.outcome = "dropped"
             /\ ~lastDone.raised
             /\ lastSubmit.exc = ""
             /\ pc # "dead"
             /\ (pc = "idle" /\ queue # << >>) => ENABLED Dequeue

C17_Witness ==
    /\ lastDone.err = "format" /\ lastDone.writes = 0
    /\ pc = "emit" /\ cur.id > lastDone.id /\ writes = 1

\* C18 as stated: the tags of a point of the actor-metrics formatter are the
\* static tags and the role and actor_id of the record it was made from.
C18_TagsFromSameRecord ==
    (variant = "actor" /\ written # NoPoint)
        => DOMAIN written.tags \subseteq
              DOMAIN StaticTags
                 \cup (DOMAIN cur.orig.d \cap {"role", "actor_id"})

\* C19 as stated: the client is replaced only in a step in which a write
\* fails.
C19_ReconnectOnlyOnWriteFailure ==
    [][ client' # client => writes' = writes + 1 ]_vars

\* C20: a point handled after a point that was dropped for two failed writes
\* starts at the first iteration, is retried once on a client that is not
\* closed when its first iteration fails, is finished as delivered when
\* either write succeeds, and is dropped only after two failed iterations.
C20_BudgetPerPoint ==
    (lastDone.outcome = "dropped" /\ lastDone.writes = 2
        /\ pc \in {"emit", "ret"})
        => /\ client \notin closed
           /\ reconnects = attempt
           /\ writes <= attempt + 1
           /\ pc = "emit" => attempt <= 1 /\ writes <= attempt
           /\ (pc = "ret" /\ lastErr = "")
                 => attempt <= 1 /\ writes >= 1
           /\ (pc = "ret" /\ lastErr # "") => attempt = 2

C20_Witness ==
    /\ lastDone.outcome = "dropped" /\ lastDone.writes = 2
    /\ pc = "ret" /\ lastErr = "" /\ attempt = 1 /\ writes = 2

====
